---- MODULE Spec2Model ----
(***************************************************************************)
(* The node/connection graph store of the story mind map                   *)
(* (src/src/ui/connectionEditor.js, class Store), the schema functions it  *)
(* calls (src/src/data/schema.js) and the seed data it falls back to       *)
(* (src/src/data/taxonomy.js, src/src/data/connections.js).                *)
(*                                                                         *)
(* JavaScript values: strings are TLA+ strings, null and an absent         *)
(* property (undefined) are the two distinguished strings below, objects   *)
(* are records whose DOMAIN is the set of properties present.  Arrays are  *)
(* sequences.  A node record carries one extra field, obj, which is the    *)
(* identity of the JavaScript object: 0 for an object only the store       *)
(* references, k > 0 for the k-th module-level seed object of taxonomy.js, *)
(* which the store shares with the seed arrays.                            *)
(***************************************************************************)
EXTENDS Integers, Sequences, FiniteSets, TLC

null == "null"
undefined == "undefined"

(* ---------------------------------------------------------------- bounds *)
\* crypto.randomUUID() calls the model follows
MaxUuid == 1
\* longest node array the model follows
MaxNodes == 5

(* ------------------------------------------------------ JavaScript values *)
\* !s for the strings, null and undefined
Falsy(s) == s \in {"", null, undefined}

\* a || b
Or(a, b) == IF Falsy(a) THEN b ELSE a

\* data.f, undefined when the property is absent
Get(data, f) == IF f \in DOMAIN data THEN data[f] ELSE undefined

\* data.f || 0 for the numeric properties
NumOr0(data, f) == IF f \in DOMAIN data THEN data[f] ELSE 0

\* data.unclear || false
BoolOrFalse(data, f) == IF f \in DOMAIN data THEN data[f] ELSE FALSE

\* String.prototype.trim on the strings of the model: " " and " X " are the
\* ones with leading or trailing white space
Trim(s) == CASE s = " " -> ""
             [] s = " X " -> "X"
             [] OTHER -> s

\* { ...a, ...b }
Spread(a, b) == [f \in DOMAIN a \cup DOMAIN b |-> IF f \in DOMAIN b THEN b[f] ELSE a[f]]

Min(a, b) == IF a < b THEN a ELSE b
Max(a, b) == IF a > b THEN a ELSE b

\* the k-th value crypto.randomUUID() returns: fresh, never a seed id
UuidPool == <<"uuid-1", "uuid-2", "uuid-3", "uuid-4", "uuid-5", "uuid-6">>
Uuid(k) == UuidPool[k]

(* ----------------------------------------------------------------- schema *)
createNode(data, fresh) ==
    [id |-> Or(Get(data, "id"), fresh),
     title |-> Or(Get(data, "title"), "Untitled"),
     definition |-> Or(Get(data, "definition"), ""),
     problemSolved |-> Or(Get(data, "problemSolved"), ""),
     breaksIfMisused |-> Or(Get(data, "breaksIfMisused"), ""),
     example |-> Or(Get(data, "example"), ""),
     personalNote |-> Or(Get(data, "personalNote"), ""),
     layer |-> Or(Get(data, "layer"), "storytelling"),
     domain |-> Or(Get(data, "domain"), null),
     subgroup |-> Or(Get(data, "subgroup"), null),
     unclear |-> BoolOrFalse(data, "unclear"),
     x |-> NumOr0(data, "x"),
     y |-> NumOr0(data, "y"),
     z |-> NumOr0(data, "z"),
     obj |-> 0]

\* data.strength ?? 3: the default replaces an absent strength only
StrengthOrDefaultNullish(data) ==
    IF "strength" \in DOMAIN data THEN data.strength ELSE 3

\* data.strength || 3: the default replaces an absent strength and 0
StrengthOrDefault(data) ==
    IF "strength" \in DOMAIN data /\ data.strength # 0 THEN data.strength ELSE 3

createConnection(data, fresh) ==
    [id |-> Or(Get(data, "id"), fresh),
     from |-> Get(data, "from"),
     to |-> Get(data, "to"),
     explanation |-> Or(Get(data, "explanation"), ""),
     strength |-> Min(5, Max(1, StrengthOrDefault(data)))]

ErrTitle == "Title is required"
ErrLayer == "Layer classification is required"
ErrDomain == "Domain nodes must specify which domain"
ErrNotFound == "Node not found"
ErrEndpoint == "From and To nodes required"
ErrExplanation == "Explanation required in Build mode"

\* validateNode without the trim: a title of white space passes
validateNodeNoTrim(node) ==
    IF Falsy(Get(node, "title")) THEN ErrTitle
    ELSE IF Falsy(Get(node, "layer")) THEN ErrLayer
    ELSE IF Get(node, "layer") = "domain" /\ Falsy(Get(node, "domain")) THEN ErrDomain
    ELSE null

\* the error of validateNode, null when the node is valid
validateNode(node) ==
    IF Falsy(Get(node, "title")) \/ Trim(Get(node, "title")) = "" THEN ErrTitle
    ELSE IF Falsy(Get(node, "layer")) THEN ErrLayer
    ELSE IF Get(node, "layer") = "domain" /\ Falsy(Get(node, "domain")) THEN ErrDomain
    ELSE null

(* -------------------------------------------------------------- seed data *)
\* The taxonomy has 16 module-level seed objects, 24 subgroup nodes and 12
\* default connections; the model keeps one node of each kind and the two
\* default connections among them.  Coordinates are in tenths.

\* STORYTELLING_NODES, STRUCTURE_NODES, DOMAIN_NODES as the module creates
\* them: objects shared by every array getAllInitialNodes returns
SeedObjects ==
    <<[createNode([id |-> "storytelling-core", title |-> "Storytelling",
                   definition |-> "Meaning architecture.",
                   problemSolved |-> "Gives purpose to every creative decision",
                   breaksIfMisused |-> "Work becomes hollow despite technical excellence",
                   example |-> "Pixar opens with emotional stakes before spectacle",
                   layer |-> "storytelling", x |-> 0, y |-> 0, z |-> 0], "")
        EXCEPT !.obj = 1],
      [createNode([id |-> "heros-journey", title |-> "Hero's Journey",
                   definition |-> "17-stage monomyth",
                   problemSolved |-> "Provides mythic resonance to any story",
                   breaksIfMisused |-> "Feels like checklist storytelling",
                   example |-> "Star Wars, The Matrix, Lion King",
                   layer |-> "structure", x |-> 60, y |-> 0, z |-> 0], "")
        EXCEPT !.obj = 2],
      [createNode([id |-> "domain-sound", title |-> "Sound",
                   definition |-> "Invisible reality glue.",
                   problemSolved |-> "Would this feel real with eyes closed?",
                   breaksIfMisused |-> "Bad sound kills great visuals instantly",
                   example |-> "Dunkirk's ticking clock motif",
                   layer |-> "domain", domain |-> "sound",
                   x |-> -97, y |-> 0, z |-> 71], "")
        EXCEPT !.obj = 3]>>

\* SUBGROUPS: the first group of the sound domain
SUBGROUPS ==
    <<[domain |-> "sound", id |-> "sound-production", title |-> "Production Sound",
       definition |-> "Mic placement, signal-to-noise, clean capture", index |-> 0]>>

\* `domain-${domain}` for the domains of the model
DomainPrefixed(domain) == CASE domain = "sound" -> "domain-sound"

\* getAllInitialNodes(): the shared seed objects as they are now, then a
\* freshly created node per subgroup
getAllInitialNodes(seed) ==
    LET domainNode(g) == CHOOSE d \in {seed[i] : i \in 1..Len(seed)} : d.domain = g.domain
        sub(g) == createNode([id |-> g.id, title |-> g.title, definition |-> g.definition,
                              layer |-> "domain", domain |-> g.domain,
                              subgroup |-> DomainPrefixed(g.domain),
                              x |-> domainNode(g).x + 40,
                              y |-> 20 + g.index * 3,
                              z |-> domainNode(g).z], "")
    IN seed \o [i \in 1..Len(SUBGROUPS) |-> sub(SUBGROUPS[i])]

\* DEFAULT_CONNECTIONS as the module creates it
DefaultConnections ==
    <<createConnection([id |-> "conn-hero-story", from |-> "heros-journey",
                        to |-> "storytelling-core",
                        explanation |-> "Hero's Journey is a framework for organizing meaning",
                        strength |-> 5], ""),
      createConnection([id |-> "conn-sound-emotion", from |-> "domain-sound",
                        to |-> "storytelling-core",
                        explanation |-> "Sound creates emotional truth in storytelling",
                        strength |-> 4], "")>>

(* ------------------------------------------------------------ persistence *)
\* the properties that hold a number or a boolean in every object of the model
Typed == {"unclear", "x", "y", "z", "strength"}

\* JSON.stringify of one object: the properties whose value is undefined are
\* dropped, and so is the object's identity
StringifyObject(o) ==
    [f \in {g \in DOMAIN o \ {"obj"} : g \in Typed \/ o[g] # undefined} |-> o[f]]

\* the string save() hands to localStorage.setItem
Stringify(n, c) ==
    [kind |-> "json",
     nodes |-> [i \in 1..Len(n) |-> StringifyObject(n[i])],
     connections |-> [i \in 1..Len(c) |-> StringifyObject(c[i])]]

\* JSON.parse of a stored node array: fresh objects
ParseNodes(n) == [i \in 1..Len(n) |-> Spread(n[i], [obj |-> 0])]

\* localStorage.getItem returned null
Absent == [kind |-> "absent"]
\* a stored string JSON.parse throws on
Corrupt == [kind |-> "corrupt"]
\* the stored string "null": JSON.parse returns null
ParsedNull == [kind |-> "null"]

\* a parsed JSON value that is no array, in a place where the store expects an
\* array: written as the one-element sequence holding its JSON text
NotAnArray(text) == <<[json |-> text]>>

\* Array.isArray(v)
IsArray(v) == ~(Len(v) = 1 /\ "json" \in DOMAIN v[1])

\* the non-array JSON values || passes over
FalsyJson == {"null", "0", "false"}

\* data[f] || [] for a parsed object data
PropOrEmpty(data, f) ==
    IF f \notin DOMAIN data THEN <<>>
    ELSE IF ~IsArray(data[f]) /\ data[f][1].json \in FalsyJson THEN <<>>
    ELSE data[f]

(* ------------------------------------------------------------------ state *)
VARIABLES
    nodes,                \* state.nodes
    connections,          \* state.connections
    mode,                 \* state.mode
    selectedNodeId,       \* state.selectedNodeId
    filters,              \* state.filters
    expandedDomains,      \* state.expandedDomains
    listeners,            \* this.listeners
    unsubscribers,        \* the functions subscribe returned so far, in call order
    SEED_NODES,           \* the module-level seed objects of taxonomy.js, as they are now
    DEFAULT_CONNECTIONS,  \* the module-level array of connections.js, as it is now
    connectionsIsDefault, \* state.connections is the DEFAULT_CONNECTIONS array itself
    storage,              \* localStorage[STORAGE_KEY]
    uuids,                \* crypto.randomUUID() calls so far
    last,                 \* the last call made and what it returned
    calls,                \* how often that call invoked each listener
    written,              \* how often that call called localStorage.setItem
    logged,               \* how often that call reached console.error
    arg,                  \* the argument of a function or getter called on its own
    out,                  \* what it returned
    event,                \* the last event a collaborator of the store handled
    confirms,             \* how often its handler called window.confirm
    clicked,              \* what its handler passed to the onNodeClick callback, call by call
    hoveredNode,          \* interactions.hoveredNode
    expandedDomain,       \* domainsRing.expandedDomain
    sigNodes,             \* nodes.value of the signals module
    sigConnections,       \* connections.value
    sigMode,              \* mode.value
    sigSelectedNodeId,    \* selectedNodeId.value
    sigExpandedDomains,   \* expandedDomains.value
    aiStatus,             \* aiStatus.value
    aiMessages,           \* aiMessages.value
    thinking,             \* the askTutor calls waiting in their delay, with what they captured
    asks,                 \* the askTutor calls accepted so far
    cleared,              \* the messages clearChat has removed so far
    searchQuery,          \* searchQuery.value
    searchResults,        \* searchResults.value
    searching             \* the queries of the performSearch calls awaiting oramaSearch

storeState == <<nodes, connections, mode, selectedNodeId, filters, expandedDomains>>
moduleState == <<SEED_NODES, DEFAULT_CONNECTIONS, connectionsIsDefault>>
vars == <<nodes, connections, mode, selectedNodeId, filters, expandedDomains,
          listeners, unsubscribers, SEED_NODES, DEFAULT_CONNECTIONS,
          connectionsIsDefault, storage, uuids, last, calls, written, logged,
          arg, out, event, confirms, clicked, hoveredNode, expandedDomain,
          sigNodes, sigConnections, sigMode, sigSelectedNodeId, sigExpandedDomains,
          aiStatus, aiMessages, thinking, asks, cleared,
          searchQuery, searchResults, searching>>
\* the state of the store's collaborators: the user interface, the signals
\* module, the tutor and the search
signals == <<sigNodes, sigConnections, sigMode, sigSelectedNodeId, sigExpandedDomains>>
tutor == <<aiStatus, aiMessages, thinking, asks, cleared>>
searchState == <<searchQuery, searchResults, searching>>
collaborators == <<event, confirms, clicked, hoveredNode, expandedDomain,
                   signals, tutor, searchState>>
\* what no method of the store touches
others == <<arg, out, collaborators>>
\* what a getter or a function called on its own leaves alone
store == <<nodes, connections, mode, selectedNodeId, filters, expandedDomains,
           listeners, unsubscribers, SEED_NODES, DEFAULT_CONNECTIONS,
           connectionsIsDefault, storage, uuids, last, calls, written, logged,
           collaborators>>

\* the callbacks that may subscribe
Listeners == {"L1", "L2"}

\* a call of a store method with its arguments, and what it returned:
\* {success: true, ...}, {success: false, error} or, for the methods without a
\* return value, nothing (success, no error)
Returned(op, args, error) ==
    [op |-> op, args |-> args, success |-> error = null, error |-> error]

NoArgs == [none |-> null]
\* no data object, no result yet
None == [none |-> null]

\* a findIndex whose -1 is taken for the last position
FindIndexOrLast(n, id) ==
    IF \E i \in 1..Len(n) : n[i].id = id
    THEN CHOOSE i \in 1..Len(n) : n[i].id = id /\ \A j \in 1..(i - 1) : n[j].id # id
    ELSE Len(n)

\* Array.prototype.findIndex(n => n.id === id): 0 for -1
FindIndex(n, id) ==
    IF \E i \in 1..Len(n) : n[i].id = id
    THEN CHOOSE i \in 1..Len(n) : n[i].id = id /\ \A j \in 1..(i - 1) : n[j].id # id
    ELSE 0

\* load() reading the stored nodes only and taking the default connections
loadNodesOnly(st, seed, defaults) ==
    LET fallback(e) == [nodes |-> getAllInitialNodes(seed), connections |-> defaults,
                        isDefault |-> TRUE, logged |-> e]
    IN CASE st.kind = "absent" -> fallback(0)
         [] st.kind \in {"corrupt", "null"} -> fallback(1)
         [] st.kind = "json" ->
              LET n == PropOrEmpty(st, "nodes")
              IN IF IsArray(n) /\ Len(n) = 0
                 THEN fallback(0)
                 ELSE [nodes |-> IF IsArray(n) THEN ParseNodes(n) ELSE n,
                       connections |-> defaults, isDefault |-> TRUE, logged |-> 0]

\* load(): the nodes and connections the constructor ends with, and how often
\* it reached console.error. JSON.parse throwing, and reading data.nodes of a
\* parsed null, end in the catch block; .length of a value that is no array
\* is not 0
load(st, seed, defaults) ==
    LET fallback(e) == [nodes |-> getAllInitialNodes(seed), connections |-> defaults,
                        isDefault |-> TRUE, logged |-> e]
    IN CASE st.kind = "absent" -> fallback(0)
         [] st.kind \in {"corrupt", "null"} -> fallback(1)
         [] st.kind = "json" ->
              LET n == PropOrEmpty(st, "nodes")
                  c == PropOrEmpty(st, "connections")
              IN IF IsArray(n) /\ Len(n) = 0
                 THEN fallback(0)
                 ELSE [nodes |-> IF IsArray(n) THEN ParseNodes(n) ELSE n,
                       connections |-> c, isDefault |-> FALSE, logged |-> 0]

\* a payload an earlier session or another writer left under the key: one node
\* and one connection whose strength no createConnection produced
ForeignPayload ==
    [kind |-> "json",
     nodes |-> <<StringifyObject(createNode([id |-> "n1", title |-> "X",
                                             layer |-> "structure"], ""))>>,
     connections |-> <<[id |-> "c1", from |-> "n1", to |-> "n2",
                        explanation |-> "", strength |-> 9]>>]

\* the stored payloads a store is constructed over
InitialStorage == {Absent, ForeignPayload}

\* the state new Store() leaves over one of the stored payloads
StoreInitOver(payloads) ==
    /\ storage \in payloads
    /\ SEED_NODES = SeedObjects
    /\ DEFAULT_CONNECTIONS = DefaultConnections
    /\ LET l == load(storage, SeedObjects, DefaultConnections)
       IN /\ nodes = l.nodes
          /\ connections = l.connections
          /\ connectionsIsDefault = l.isDefault
    /\ mode = "explore"
    /\ selectedNodeId = null
    /\ filters = [layer |-> "", domain |-> "", intent |-> ""]
    /\ expandedDomains = {}
    /\ listeners = {}
    /\ unsubscribers = <<>>
    /\ uuids = 0
    /\ last = Returned("constructor", NoArgs, null)
    /\ calls = [l \in Listeners |-> 0]
    /\ written = 0
    /\ logged = load(storage, SeedObjects, DefaultConnections).logged

StoreInit == StoreInitOver(InitialStorage)

\* loadState() of the signals module: the stored object when its nodes have a
\* length above 0, the seed and the default connections otherwise
loadState(st) ==
    LET fallback == [nodes |-> getAllInitialNodes(SeedObjects),
                     connections |-> DefaultConnections]
    IN IF st.kind = "json" /\ "nodes" \in DOMAIN st
       THEN IF IsArray(st.nodes) /\ Len(st.nodes) > 0
            THEN [nodes |-> ParseNodes(st.nodes),
                  connections |-> IF "connections" \in DOMAIN st THEN st.connections
                                  ELSE NotAnArray("undefined")]
            ELSE fallback
       ELSE fallback

\* the collaborators as their modules leave them: nothing hovered, expanded,
\* asked or searched, the signals loaded from the payload st
CollaboratorsInitOver(st) ==
    /\ event = None
    /\ confirms = 0
    /\ clicked = <<>>
    /\ hoveredNode = null
    /\ expandedDomain = null
    /\ sigNodes = loadState(st).nodes
    /\ sigConnections = loadState(st).connections
    /\ sigMode = "explore"
    /\ sigSelectedNodeId = null
    /\ sigExpandedDomains = {}
    /\ aiStatus = "idle"
    /\ aiMessages = <<>>
    /\ thinking = {}
    /\ asks = 0
    /\ cleared = {}
    /\ searchQuery = ""
    /\ searchResults = <<>>
    /\ searching = <<>>

\* the signals module is not loaded next to the Store: its signals are as a
\* page of its own over an empty localStorage leaves them
Init ==
    /\ StoreInit
    /\ CollaboratorsInitOver(Absent)
    /\ arg = None
    /\ out = None

(* ------------------------------------------------------ save and notify *)
\* save(): one setItem call; w is what localStorage does with it
\* a save() that returns without calling setItem
saveSkipped(n, c, w) ==
    /\ written' = 0
    /\ storage' = storage
    /\ logged' = 0

\* setItem throwing (w = "quota") is caught and logged
save(n, c, w) ==
    /\ written' = 1
    /\ storage' = IF w = "stored" THEN Stringify(n, c) ELSE storage
    /\ logged' = IF w = "stored" THEN 0 ELSE 1

NoSave == written' = 0 /\ storage' = storage /\ logged' = 0

\* a notify() that a failed write keeps from running, as it would be without
\* the try block in save()
notifyUnlessWriteFailed ==
    calls' = [l \in Listeners |-> IF l \in listeners /\ logged' = 0 THEN 1 ELSE 0]

\* notify(): every listener of the set, once
notify == calls' = [l \in Listeners |-> IF l \in listeners THEN 1 ELSE 0]

NoNotify == calls' = [l \in Listeners |-> 0]

(* ---------------------------------------------------------- subscriptions *)
\* how many subscribe calls a run makes
MaxSubscriptions == 2

\* Set.add(listener), and the closure () => this.listeners.delete(listener)
subscribe(l) ==
    /\ Len(unsubscribers) < MaxSubscriptions
    /\ listeners' = listeners \cup {l}
    /\ unsubscribers' = Append(unsubscribers, [listener |-> l, called |-> FALSE])
    /\ last' = Returned("subscribe", [listener |-> l], null)
    /\ UNCHANGED others
    /\ NoSave /\ NoNotify
    /\ UNCHANGED <<storeState, moduleState, uuids>>

\* an unsubscribe function that empties the set of listeners
unsubscribeAll(k) ==
    /\ k \in 1..Len(unsubscribers)
    /\ listeners' = {}
    /\ unsubscribers' = [unsubscribers EXCEPT ![k].called = TRUE]
    /\ last' = Returned("unsubscribe", [subscription |-> k], null)
    /\ UNCHANGED others
    /\ NoSave /\ NoNotify
    /\ UNCHANGED <<storeState, moduleState, uuids>>

\* the function the k-th subscribe call returned, called: Set.delete of its
\* listener
unsubscribe(k) ==
    /\ k \in 1..Len(unsubscribers)
    /\ listeners' = listeners \ {unsubscribers[k].listener}
    /\ unsubscribers' = [unsubscribers EXCEPT ![k].called = TRUE]
    /\ last' = Returned("unsubscribe", [subscription |-> k], null)
    /\ UNCHANGED others
    /\ NoSave /\ NoNotify
    /\ UNCHANGED <<storeState, moduleState, uuids>>

(* ---------------------------------------------------------------- actions *)
setMode(m) ==
    /\ mode' = m
    /\ NoSave /\ notify
    /\ last' = Returned("setMode", [mode |-> m], null)
    /\ UNCHANGED others
    /\ UNCHANGED <<nodes, connections, selectedNodeId, filters, expandedDomains,
                   listeners, unsubscribers, moduleState, uuids>>

selectNode(id) ==
    /\ selectedNodeId' = id
    /\ NoSave /\ notify
    /\ last' = Returned("selectNode", [id |-> id], null)
    /\ UNCHANGED others
    /\ UNCHANGED <<nodes, connections, mode, filters, expandedDomains,
                   listeners, unsubscribers, moduleState, uuids>>

deselectNode ==
    /\ selectedNodeId' = null
    /\ NoSave /\ notify
    /\ last' = Returned("deselectNode", NoArgs, null)
    /\ UNCHANGED others
    /\ UNCHANGED <<nodes, connections, mode, filters, expandedDomains,
                   listeners, unsubscribers, moduleState, uuids>>

setFilter(key, value) ==
    /\ filters' = [filters EXCEPT ![key] = value]
    /\ NoSave /\ notify
    /\ last' = Returned("setFilter", [key |-> key, value |-> value], null)
    /\ UNCHANGED others
    /\ UNCHANGED <<nodes, connections, mode, selectedNodeId, expandedDomains,
                   listeners, unsubscribers, moduleState, uuids>>

clearFilters ==
    /\ filters' = [layer |-> "", domain |-> "", intent |-> ""]
    /\ NoSave /\ notify
    /\ last' = Returned("clearFilters", NoArgs, null)
    /\ UNCHANGED others
    /\ UNCHANGED <<nodes, connections, mode, selectedNodeId, expandedDomains,
                   listeners, unsubscribers, moduleState, uuids>>

toggleDomainExpand(domainId) ==
    /\ expandedDomains' = IF domainId \in expandedDomains
                          THEN expandedDomains \ {domainId}
                          ELSE expandedDomains \cup {domainId}
    /\ NoSave /\ notify
    /\ last' = Returned("toggleDomainExpand", [domainId |-> domainId], null)
    /\ UNCHANGED others
    /\ UNCHANGED <<nodes, connections, mode, selectedNodeId, filters,
                   listeners, unsubscribers, moduleState, uuids>>

(* -------------------------------------------------------------- node CRUD *)
\* a store that treats every mode as build mode
buildModeAlways == TRUE

\* this.state.mode === 'build'
buildMode == mode = "build"

\* a rejection that still runs notify()
RejectedNotified(op, args, error) ==
    /\ last' = Returned(op, args, error)
    /\ UNCHANGED others
    /\ NoSave /\ notify
    /\ UNCHANGED <<storeState, listeners, unsubscribers, moduleState, uuids>>

\* what a rejected call leaves behind: the result object and nothing else
Rejected(op, args, error) ==
    /\ last' = Returned(op, args, error)
    /\ UNCHANGED others
    /\ NoSave /\ NoNotify
    /\ UNCHANGED <<storeState, listeners, unsubscribers, moduleState, uuids>>

addNode(data, w) ==
    IF buildMode /\ validateNode(data) # null
    THEN Rejected("addNode", data, validateNode(data))
    ELSE LET checked == IF buildMode THEN Spread(data, [unclear |-> FALSE]) ELSE data
             generated == Falsy(Get(checked, "id"))
             node == createNode(checked, Uuid(uuids + 1))
         IN /\ Len(nodes) < MaxNodes
            /\ generated => uuids < MaxUuid
            /\ uuids' = IF generated THEN uuids + 1 ELSE uuids
            /\ nodes' = Append(nodes, node)
            /\ save(nodes', connections, w) /\ notify
            /\ last' = Returned("addNode", data, null)
            /\ UNCHANGED others
            /\ UNCHANGED <<connections, mode, selectedNodeId, filters, expandedDomains,
                           listeners, unsubscribers, moduleState>>

\* an updateNode that validates the updates, not the merged node
updateNodeValidatingUpdates(id, updates, w) ==
    LET index == FindIndex(nodes, id)
        updated == Spread(Spread(nodes[index], updates), [obj |-> 0])
    IN IF index = 0
       THEN Rejected("updateNode", [id |-> id, updates |-> updates], ErrNotFound)
       ELSE IF buildMode /\ validateNode(updates) # null
       THEN Rejected("updateNode", [id |-> id, updates |-> updates], validateNode(updates))
       ELSE /\ nodes' = [nodes EXCEPT ![index] = updated]
            /\ save(nodes', connections, w) /\ notify
            /\ last' = Returned("updateNode", [id |-> id, updates |-> updates], null)
            /\ UNCHANGED others
            /\ UNCHANGED <<connections, mode, selectedNodeId, filters, expandedDomains,
                           listeners, unsubscribers, moduleState, uuids>>

updateNode(id, updates, w) ==
    LET index == FindIndex(nodes, id)
        updated == Spread(Spread(nodes[index], updates), [obj |-> 0])
    IN IF index = 0
       THEN Rejected("updateNode", [id |-> id, updates |-> updates], ErrNotFound)
       ELSE IF buildMode /\ validateNode(updated) # null
       THEN Rejected("updateNode", [id |-> id, updates |-> updates], validateNode(updated))
       ELSE /\ nodes' = [nodes EXCEPT ![index] = updated]
            /\ save(nodes', connections, w) /\ notify
            /\ last' = Returned("updateNode", [id |-> id, updates |-> updates], null)
            /\ UNCHANGED others
            /\ UNCHANGED <<connections, mode, selectedNodeId, filters, expandedDomains,
                           listeners, unsubscribers, moduleState, uuids>>

\* updateNodeNotes ending in notify() like the other mutators
updateNodeNotesNotifying(id, notes, w) ==
    LET index == FindIndex(nodes, id)
    IN /\ last' = Returned("updateNodeNotes", [id |-> id, notes |-> notes], null)
       /\ UNCHANGED others
       /\ IF index = 0
          THEN NoSave /\ NoNotify /\ UNCHANGED <<nodes, SEED_NODES>>
          ELSE /\ nodes' = [nodes EXCEPT ![index].personalNote = notes]
               /\ SEED_NODES' = IF nodes[index].obj > 0
                                THEN [SEED_NODES EXCEPT ![nodes[index].obj].personalNote = notes]
                                ELSE SEED_NODES
               /\ save(nodes', connections, w) /\ notify
       /\ UNCHANGED <<connections, mode, selectedNodeId, filters, expandedDomains,
                      listeners, unsubscribers, DEFAULT_CONNECTIONS,
                      connectionsIsDefault, uuids>>

\* nodes[index].personalNote = notes writes into the object the array holds:
\* a seed object when the store still shares it with taxonomy.js
updateNodeNotes(id, notes, w) ==
    LET index == FindIndex(nodes, id)
    IN /\ last' = Returned("updateNodeNotes", [id |-> id, notes |-> notes], null)
       /\ UNCHANGED others
       /\ NoNotify
       /\ IF index = 0
          THEN NoSave /\ UNCHANGED <<nodes, SEED_NODES>>
          ELSE /\ nodes' = [nodes EXCEPT ![index].personalNote = notes]
               /\ SEED_NODES' = IF nodes[index].obj > 0
                                THEN [SEED_NODES EXCEPT ![nodes[index].obj].personalNote = notes]
                                ELSE SEED_NODES
               /\ save(nodes', connections, w)
       /\ UNCHANGED <<connections, mode, selectedNodeId, filters, expandedDomains,
                      listeners, unsubscribers, DEFAULT_CONNECTIONS,
                      connectionsIsDefault, uuids>>

\* a cascade that looks at the from end only
WithoutNodeFrom(c, id) == SelectSeq(c, LAMBDA e : e.from # id)

\* the connections filter(c => c.from !== id && c.to !== id) keeps
WithoutNode(c, id) == SelectSeq(c, LAMBDA e : e.from # id /\ e.to # id)

\* a deleteNode that clears the selection when the selected node goes
deleteNodeDeselecting(id, w) ==
    /\ nodes' = SelectSeq(nodes, LAMBDA n : n.id # id)
    /\ connections' = WithoutNode(connections, id)
    /\ connectionsIsDefault' = FALSE
    /\ selectedNodeId' = IF selectedNodeId = id THEN null ELSE selectedNodeId
    /\ save(nodes', connections', w) /\ notify
    /\ last' = Returned("deleteNode", [id |-> id], null)
    /\ UNCHANGED others
    /\ UNCHANGED <<mode, filters, expandedDomains, listeners,
                   unsubscribers, SEED_NODES, DEFAULT_CONNECTIONS, uuids>>

deleteNode(id, w) ==
    /\ nodes' = SelectSeq(nodes, LAMBDA n : n.id # id)
    /\ connections' = WithoutNode(connections, id)
    /\ connectionsIsDefault' = FALSE
    /\ save(nodes', connections', w) /\ notify
    /\ last' = Returned("deleteNode", [id |-> id], null)
    /\ UNCHANGED others
    /\ UNCHANGED <<mode, selectedNodeId, filters, expandedDomains, listeners,
                   unsubscribers, SEED_NODES, DEFAULT_CONNECTIONS, uuids>>

(* -------------------------------------------------------- connection CRUD *)
\* an addConnection that looks at the explanation before the endpoints
addConnectionExplanationFirst(data, w) ==
    IF Falsy(Get(data, "explanation")) /\ buildMode
    THEN Rejected("addConnection", data, ErrExplanation)
    ELSE IF Falsy(Get(data, "from")) \/ Falsy(Get(data, "to"))
    THEN Rejected("addConnection", data, ErrEndpoint)
    ELSE LET generated == Falsy(Get(data, "id"))
             connection == createConnection(data, Uuid(uuids + 1))
         IN /\ generated => uuids < MaxUuid
            /\ uuids' = IF generated THEN uuids + 1 ELSE uuids
            /\ connections' = Append(connections, connection)
            /\ DEFAULT_CONNECTIONS' = IF connectionsIsDefault
                                      THEN Append(DEFAULT_CONNECTIONS, connection)
                                      ELSE DEFAULT_CONNECTIONS
            /\ save(nodes, connections', w) /\ notify
            /\ last' = Returned("addConnection", data, null)
            /\ UNCHANGED others
            /\ UNCHANGED <<nodes, mode, selectedNodeId, filters, expandedDomains,
                           listeners, unsubscribers, SEED_NODES, connectionsIsDefault>>

\* connections.push(connection) appends to DEFAULT_CONNECTIONS too when
\* state.connections is that array
addConnection(data, w) ==
    IF Falsy(Get(data, "from")) \/ Falsy(Get(data, "to"))
    THEN Rejected("addConnection", data, ErrEndpoint)
    ELSE IF Falsy(Get(data, "explanation")) /\ buildMode
    THEN Rejected("addConnection", data, ErrExplanation)
    ELSE LET generated == Falsy(Get(data, "id"))
             connection == createConnection(data, Uuid(uuids + 1))
         IN /\ generated => uuids < MaxUuid
            /\ uuids' = IF generated THEN uuids + 1 ELSE uuids
            /\ connections' = Append(connections, connection)
            /\ DEFAULT_CONNECTIONS' = IF connectionsIsDefault
                                      THEN Append(DEFAULT_CONNECTIONS, connection)
                                      ELSE DEFAULT_CONNECTIONS
            /\ save(nodes, connections', w) /\ notify
            /\ last' = Returned("addConnection", data, null)
            /\ UNCHANGED others
            /\ UNCHANGED <<nodes, mode, selectedNodeId, filters, expandedDomains,
                           listeners, unsubscribers, SEED_NODES, connectionsIsDefault>>

deleteConnection(id, w) ==
    /\ connections' = SelectSeq(connections, LAMBDA c : c.id # id)
    /\ connectionsIsDefault' = FALSE
    /\ save(nodes, connections', w) /\ notify
    /\ last' = Returned("deleteConnection", [id |-> id], null)
    /\ UNCHANGED others
    /\ UNCHANGED <<nodes, mode, selectedNodeId, filters, expandedDomains, listeners,
                   unsubscribers, SEED_NODES, DEFAULT_CONNECTIONS, uuids>>

reset(w) ==
    /\ nodes' = getAllInitialNodes(SEED_NODES)
    /\ connections' = DEFAULT_CONNECTIONS
    /\ connectionsIsDefault' = TRUE
    /\ selectedNodeId' = null
    /\ expandedDomains' = {}
    /\ save(nodes', connections', w) /\ notify
    /\ last' = Returned("reset", NoArgs, null)
    /\ UNCHANGED others
    /\ UNCHANGED <<mode, filters, listeners, unsubscribers, SEED_NODES,
                   DEFAULT_CONNECTIONS, uuids>>

(* ----------------------------------------------------------------- inputs *)
\* the data objects addNode is called with
NodeInputs ==
    {[title |-> "", layer |-> "storytelling"],
     [title |-> " ", layer |-> "domain", domain |-> ""],
     [title |-> "X", layer |-> "domain", domain |-> ""],
     [title |-> "X", layer |-> "storytelling", domain |-> "sound", unclear |-> TRUE]}

\* the ids updateNode is called with, and the updates
UpdateIds == {"domain-sound"}
NodeUpdates ==
    {[title |-> ""],
     [layer |-> "structure", unclear |-> TRUE]}

\* the ids updateNodeNotes is called with, and the notes
NoteIds == {"storytelling-core"}
Notes == {"memo"}

\* the ids deleteNode is called with
DeleteIds == {"domain-sound", "n1"}

\* the data objects addConnection is called with
ConnectionInputs ==
    {[from |-> "heros-journey", to |-> "domain-sound", explanation |-> "why",
      strength |-> 9],
     [from |-> "domain-sound", to |-> "n2", explanation |-> "", strength |-> -3],
     [from |-> "", to |-> "domain-sound", explanation |-> "why"]}

\* the ids deleteConnection is called with
ConnectionIds == {"conn-hero-story"}

\* localStorage accepts every write
Stored == {"stored"}

Next ==
    \/ \E l \in {"L1"} : unsubscribers = <<>> /\ subscribe(l)
    \/ \E m \in {"explore", "build"} : setMode(m)
    \/ \E data \in NodeInputs, w \in Stored : addNode(data, w)
    \/ \E id \in UpdateIds, updates \in NodeUpdates, w \in Stored : updateNode(id, updates, w)
    \/ \E id \in NoteIds, notes \in Notes, w \in Stored : updateNodeNotes(id, notes, w)
    \/ \E id \in DeleteIds, w \in Stored : deleteNode(id, w)
    \/ \E data \in ConnectionInputs, w \in Stored : addConnection(data, w)
    \/ \E id \in ConnectionIds, w \in Stored : deleteConnection(id, w)
    \/ \E w \in Stored : reset(w)

Spec == Init /\ [][Next]_vars

(* ------------------------------------------------------------ page reload *)
\* the page is loaded again: the modules are evaluated afresh and new Store()
\* runs load() over what localStorage holds
constructor ==
    /\ SEED_NODES' = SeedObjects
    /\ DEFAULT_CONNECTIONS' = DefaultConnections
    /\ LET l == load(storage, SeedObjects, DefaultConnections)
       IN /\ nodes' = l.nodes
          /\ connections' = l.connections
          /\ connectionsIsDefault' = l.isDefault
          /\ logged' = l.logged
    /\ mode' = "explore"
    /\ selectedNodeId' = null
    /\ filters' = [layer |-> "", domain |-> "", intent |-> ""]
    /\ expandedDomains' = {}
    /\ listeners' = {}
    /\ unsubscribers' = <<>>
    /\ last' = Returned("constructor", NoArgs, null)
    /\ written' = 0
    /\ NoNotify
    /\ UNCHANGED <<storage, uuids>>
    /\ UNCHANGED others

\* the data objects addNode is called with before a reload
ReloadNodeInputs == {[title |-> "X", layer |-> "structure"]}

\* the ids deleteNode is called with before a reload
ReloadDeleteIds == {"n1", "storytelling-core", "heros-journey"}

NextReload ==
    \/ \E data \in ReloadNodeInputs, w \in Stored : addNode(data, w)
    \/ \E id \in NoteIds, notes \in Notes, w \in Stored : updateNodeNotes(id, notes, w)
    \/ \E id \in ReloadDeleteIds, w \in Stored : deleteNode(id, w)
    \/ \E data \in ConnectionInputs, w \in Stored : addConnection(data, w)
    \/ constructor

SpecReload == Init /\ [][NextReload]_vars

(* ------------------------------------------------ createConnection alone *)
\* how far below 1 and above 5 the strengths handed to createConnection go
StrengthSpread == 8

\* the data objects createConnection is called with: a strength on either
\* side of the range, in it, zero, or none, with and without the optional
\* properties
ConnectionData ==
    LET base == [from |-> "heros-journey", to |-> "domain-sound"]
    IN {Spread(Spread(base, s), e) :
          s \in {[strength |-> v] : v \in (1 - StrengthSpread)..(5 + StrengthSpread)}
                \cup {[from |-> "heros-journey"]},
          e \in {[explanation |-> "why"], [id |-> "c9"], [to |-> "sound-production"]}}

InitCreateConnection ==
    /\ StoreInit
    /\ CollaboratorsInitOver(Absent)
    /\ arg \in ConnectionData
    /\ out = None

applyCreateConnection ==
    /\ out = None
    /\ out' = createConnection(arg, Uuid(1))
    /\ UNCHANGED <<store, arg>>

NextCreateConnection == applyCreateConnection

SpecCreateConnection == InitCreateConnection /\ [][NextCreateConnection]_vars

(* ---------------------------------------------------- writes that fail *)
\* what localStorage.setItem does: it stores the string, or it throws
\* (quota exceeded, storage disabled)
Writes == {"stored", "quota"}

\* the data objects and ids the mutators are called with while writes may fail
QuotaNodeInputs == {[id |-> "n7", title |-> "X", layer |-> "structure"]}
QuotaDeleteIds == {"domain-sound"}
QuotaConnectionInputs ==
    {[id |-> "c7", from |-> "heros-journey", to |-> "domain-sound", explanation |-> "why"]}

\* addNode and addConnection are called once each
NextQuota ==
    \/ \E l \in {"L1"} : unsubscribers = <<>> /\ subscribe(l)
    \/ \E data \in QuotaNodeInputs, w \in Writes :
          (\A i \in 1..Len(nodes) : nodes[i].id # data.id) /\ addNode(data, w)
    \/ \E id \in NoteIds, notes \in Notes, w \in Writes : updateNodeNotes(id, notes, w)
    \/ \E id \in UpdateIds, updates \in {[unclear |-> TRUE]}, w \in Writes :
          updateNode(id, updates, w)
    \/ \E id \in QuotaDeleteIds, w \in Writes : deleteNode(id, w)
    \/ \E data \in QuotaConnectionInputs, w \in Writes :
          (\A i \in 1..Len(connections) : connections[i].id # data.id) /\ addConnection(data, w)
    \/ \E id \in ConnectionIds, w \in Writes : deleteConnection(id, w)
    \/ \E w \in Writes : reset(w)

SpecQuota == Init /\ [][NextQuota]_vars

(* ---------------------------------------------- subscribers coming and going *)
NextSubscribe ==
    \/ \E l \in Listeners : subscribe(l)
    \/ \E k \in 1..MaxSubscriptions : unsubscribe(k)
    \/ \E m \in {"explore", "build"} : setMode(m)
    \/ \E id \in NoteIds, notes \in Notes, w \in Stored : updateNodeNotes(id, notes, w)
    \/ \E id \in QuotaDeleteIds, w \in Stored : deleteNode(id, w)

SpecSubscribe == Init /\ [][NextSubscribe]_vars

(* ------------------------------------------------------ updateNode alone *)
\* the ids updateNode is called with: a seed node and an id no node has
UpdateAloneIds == {"domain-sound", "ghost"}

\* the updates: titles that are empty, blank and present, a layer without a
\* title, and an emptied domain
UpdateAloneUpdates ==
    {[title |-> ""], [title |-> " "], [title |-> "X"],
     [layer |-> "structure", unclear |-> TRUE],
     [domain |-> ""]}

NextUpdate ==
    \/ \E m \in {"explore", "build"} : setMode(m)
    \/ \E id \in UpdateAloneIds, updates \in UpdateAloneUpdates, w \in Stored :
          updateNode(id, updates, w)
    \/ \E id \in QuotaDeleteIds, w \in Stored : deleteNode(id, w)

SpecUpdate == Init /\ [][NextUpdate]_vars

(* --------------------------------------------------- addConnection alone *)
\* how many connections the store holds before addConnection is no longer
\* called
MaxConnections == 4

\* the data objects addConnection is called with: both endpoints and an
\* explanation, an endpoint no node has with and without an explanation, an
\* empty from without an explanation, and no to at all
ConnectAloneInputs ==
    {[from |-> "heros-journey", to |-> "domain-sound", explanation |-> "why",
      strength |-> 9],
     [id |-> "c7", from |-> "domain-sound", to |-> "n2", explanation |-> ""],
     [id |-> "c8", from |-> "heros-journey", to |-> "ghost", explanation |-> "why"],
     [from |-> "", to |-> "domain-sound", explanation |-> ""],
     [from |-> "heros-journey", explanation |-> "why"]}

NextConnect ==
    \/ \E m \in {"explore", "build"} : setMode(m)
    \/ \E data \in ConnectAloneInputs, w \in Stored :
          Len(connections) < MaxConnections /\ addConnection(data, w)
    \/ \E id \in ConnectionIds, w \in Stored : deleteConnection(id, w)

SpecConnect == Init /\ [][NextConnect]_vars

(* ------------------------------------------------- every notifying call *)
\* the ids selectNode and toggleDomainExpand are called with
SelectIds == {"domain-sound"}
ExpandIds == {"domain-sound"}

\* the data objects and ids the mutators are called with next to the view calls
ViewNodeInputs == {[id |-> "n7", title |-> "", layer |-> "structure"]}
ViewNodeUpdates == {[title |-> ""]}
ViewConnectionInputs ==
    {[id |-> "c7", from |-> "heros-journey", to |-> "domain-sound", explanation |-> ""]}

\* addNode and addConnection are called until they have added once
NextView ==
    \/ \E l \in {"L1"} : unsubscribers = <<>> /\ subscribe(l)
    \/ \E m \in {"explore", "build"} : setMode(m)
    \/ \E id \in SelectIds : selectNode(id)
    \/ deselectNode
    \/ \E value \in {"", "domain"} : setFilter("layer", value)
    \/ clearFilters
    \/ \E domainId \in ExpandIds : toggleDomainExpand(domainId)
    \/ \E data \in ViewNodeInputs, w \in Stored :
          (\A i \in 1..Len(nodes) : nodes[i].id # data.id) /\ addNode(data, w)
    \/ \E id \in UpdateIds, updates \in ViewNodeUpdates, w \in Stored :
          updateNode(id, updates, w)
    \/ \E id \in QuotaDeleteIds, w \in Stored : deleteNode(id, w)
    \/ \E data \in ViewConnectionInputs, w \in Stored :
          (\A i \in 1..Len(connections) : connections[i].id # data.id) /\ addConnection(data, w)
    \/ \E id \in ConnectionIds, w \in Stored : deleteConnection(id, w)
    \/ \E w \in Stored : reset(w)

SpecView == Init /\ [][NextView]_vars

(* ------------------------------------------------- the ways into build mode *)

\* store.setMode(m) called from a handler
callSetMode(m) ==
    /\ mode' = m
    /\ NoSave /\ notify
    /\ last' = Returned("setMode", [mode |-> m], null)
    /\ UNCHANGED <<nodes, connections, selectedNodeId, filters, expandedDomains,
                   listeners, unsubscribers, moduleState, uuids>>

\* store.getNodes().some(n => n.unclear)
hasUnclear == \E i \in 1..Len(nodes) : nodes[i].unclear

\* the click handler of btn-explore
exploreBtnClick ==
    /\ callSetMode("explore")
    /\ event' = [name |-> "exploreBtn"]
    /\ confirms' = 0
    /\ UNCHANGED <<arg, out, clicked, hoveredNode, expandedDomain,
                   signals, tutor, searchState>>

\* the click handler of btn-build; answer is what window.confirm returns when
\* it is called
buildBtnClick(answer) ==
    /\ event' = [name |-> "buildBtn", answer |-> answer]
    /\ confirms' = IF hasUnclear THEN 1 ELSE 0
    /\ IF hasUnclear /\ ~answer
       THEN UNCHANGED <<storeState, listeners, unsubscribers, moduleState, storage, uuids,
                        last, calls, written, logged>>
       ELSE callSetMode("build")
    /\ UNCHANGED <<arg, out, clicked, hoveredNode, expandedDomain,
                   signals, tutor, searchState>>

\* the keydown handler of the document; tagName is e.target.tagName
keydown(key, tagName) ==
    /\ event' = [name |-> "keydown", key |-> key, tagName |-> tagName]
    /\ confirms' = 0
    /\ IF tagName \in {"INPUT", "TEXTAREA"}
       THEN UNCHANGED <<storeState, listeners, unsubscribers, moduleState, storage, uuids,
                        last, calls, written, logged>>
       ELSE CASE key = "e" -> callSetMode("explore")
              [] key = "b" -> callSetMode("build")
              [] OTHER -> UNCHANGED <<storeState, listeners, unsubscribers, moduleState,
                                      storage, uuids, last, calls, written, logged>>
    /\ UNCHANGED <<arg, out, clicked, hoveredNode, expandedDomain,
                   signals, tutor, searchState>>



NextMode ==
    \/ exploreBtnClick
    \/ \E answer \in BOOLEAN : buildBtnClick(answer)
    \/ \E key \in {"e", "b", "x"}, tagName \in {"BODY", "INPUT"} : keydown(key, tagName)
    \/ \E data \in {[id |-> "n7", title |-> "X", layer |-> "structure", unclear |-> TRUE],
                     [id |-> "n8", title |-> "Y", layer |-> "structure", unclear |-> FALSE]},
          w \in Stored :
          (\A i \in 1..Len(nodes) : nodes[i].id # data.id) /\ addNode(data, w)
    \/ \E id \in {"n7"}, w \in Stored : deleteNode(id, w)

SpecMode == Init /\ [][NextMode]_vars

(* ------------------------------------------ the Store next to the signals *)
\* One caller drives a Store and a signals module, each in a page of its own
\* over the same stored payload: every call goes to the Store first and to the
\* signals module next.  event holds the call the signals module handled last.

\* everything of the Store and of its module
wholeStore == <<storeState, listeners, unsubscribers, moduleState, storage, uuids,
                last, calls, written, logged>>
\* what an action of the signals module leaves alone
sigFrame == <<wholeStore, arg, out, confirms, clicked, hoveredNode, expandedDomain,
              tutor, searchState>>

\* the signals module has handled the call the Store handled last
InStep ==
    \/ event = None /\ last.op = "constructor"
    \/ event # None /\ event.op = last.op /\ event.args = last.args

\* the call the signals module has handled now
handled(op, args, threw) == event' = [op |-> op, args |-> args, threw |-> threw]

sigSetMode(m) ==
    /\ sigMode' = m
    /\ handled("setMode", [mode |-> m], FALSE)
    /\ UNCHANGED <<sigNodes, sigConnections, sigSelectedNodeId, sigExpandedDomains>>
    /\ UNCHANGED sigFrame

\* addNode(data): require is no function of an ES module; resolves tells
\* whether the build gives it one, and the call throws a ReferenceError
\* before it touches a signal when it does not
sigAddNode(data, resolves) ==
    /\ Len(sigNodes) < MaxNodes
    /\ sigNodes' = IF resolves THEN Append(sigNodes, createNode(data, Uuid(1)))
                   ELSE sigNodes
    /\ handled("addNode", data, ~resolves)
    /\ UNCHANGED <<sigConnections, sigMode, sigSelectedNodeId, sigExpandedDomains>>
    /\ UNCHANGED sigFrame

sigDeleteNode(id) ==
    /\ sigNodes' = SelectSeq(sigNodes, LAMBDA n : n.id # id)
    /\ sigConnections' = SelectSeq(sigConnections, LAMBDA c : c.from # id /\ c.to # id)
    /\ handled("deleteNode", [id |-> id], FALSE)
    /\ UNCHANGED <<sigMode, sigSelectedNodeId, sigExpandedDomains>>
    /\ UNCHANGED sigFrame

\* addConnection(data): the same require
sigAddConnection(data, resolves) ==
    /\ Len(sigConnections) < MaxConnections
    /\ sigConnections' = IF resolves
                         THEN Append(sigConnections, createConnection(data, Uuid(1)))
                         ELSE sigConnections
    /\ handled("addConnection", data, ~resolves)
    /\ UNCHANGED <<sigNodes, sigMode, sigSelectedNodeId, sigExpandedDomains>>
    /\ UNCHANGED sigFrame

sigDeleteConnection(id) ==
    /\ sigConnections' = SelectSeq(sigConnections, LAMBDA c : c.id # id)
    /\ handled("deleteConnection", [id |-> id], FALSE)
    /\ UNCHANGED <<sigNodes, sigMode, sigSelectedNodeId, sigExpandedDomains>>
    /\ UNCHANGED sigFrame

\* resetState(): no call of the signals module writes into a seed object or
\* into DEFAULT_CONNECTIONS, so both are as their modules created them
resetState ==
    /\ sigNodes' = getAllInitialNodes(SeedObjects)
    /\ sigConnections' = DefaultConnections
    /\ sigSelectedNodeId' = null
    /\ sigExpandedDomains' = {}
    /\ handled("reset", NoArgs, FALSE)
    /\ UNCHANGED sigMode
    /\ UNCHANGED sigFrame


\* the call is not the one made just before
Another(op, args) == ~(last.op = op /\ last.args = args)

\* both start from the same stored payload
InitBoth ==
    /\ StoreInit
    /\ CollaboratorsInitOver(storage)
    /\ arg = None
    /\ out = None

NextBoth ==
    \/ \E m \in {"explore", "build"} :
          InStep /\ Another("setMode", [mode |-> m]) /\ setMode(m)
    \/ \E data \in {[id |-> "n8", title |-> "", layer |-> "structure"]}, w \in Stored :
          InStep /\ Another("addNode", data) /\ addNode(data, w)
    \/ \E id \in {"n8"}, w \in Stored :
          InStep /\ Another("deleteNode", [id |-> id]) /\ deleteNode(id, w)
    \/ \E data \in {[id |-> "c8", from |-> "n8", to |-> "heros-journey",
                      explanation |-> ""]},
          w \in Stored :
          /\ InStep /\ Another("addConnection", data)
          /\ Len(connections) < MaxConnections
          /\ addConnection(data, w)
    \/ \E id \in {"c8"}, w \in Stored :
          InStep /\ Another("deleteConnection", [id |-> id]) /\ deleteConnection(id, w)
    \/ \E w \in Stored : InStep /\ Another("reset", NoArgs) /\ reset(w)
    \/ ~InStep /\ last.op = "setMode" /\ sigSetMode(last.args.mode)
    \/ \E resolves \in BOOLEAN :
          ~InStep /\ last.op = "addNode" /\ sigAddNode(last.args, resolves)
    \/ ~InStep /\ last.op = "deleteNode" /\ sigDeleteNode(last.args.id)
    \/ \E resolves \in BOOLEAN :
          ~InStep /\ last.op = "addConnection" /\ sigAddConnection(last.args, resolves)
    \/ ~InStep /\ last.op = "deleteConnection" /\ sigDeleteConnection(last.args.id)
    \/ ~InStep /\ last.op = "reset" /\ resetState

SpecBoth == InitBoth /\ [][NextBoth]_vars

(* ------------------------------------------------ ids the caller supplies *)
\* getNodeById(id): Array.prototype.find returns the first node with the id
\* undefined where a node object is expected
NoNode == [none |-> undefined]

getNodeById(id) ==
    IF FindIndex(nodes, id) = 0 THEN NoNode ELSE nodes[FindIndex(nodes, id)]


NextIds ==
    \/ \E data \in {[id |-> "n7", title |-> "X", layer |-> "structure"],
                     [id |-> "heros-journey", title |-> "Y", layer |-> "structure"]},
          w \in Stored : addNode(data, w)
    \/ \E id \in {"n7", "domain-sound"},
          updates \in {[id |-> "storytelling-core"], [title |-> "Z"]},
          w \in Stored : updateNode(id, updates, w)
    \/ \E id \in {"n7", "storytelling-core"}, w \in Stored : deleteNode(id, w)
    \/ \E w \in Stored : reset(w)

SpecIds == Init /\ [][NextIds]_vars

(* ------------------------------------------------------ reset after use *)

NextReset ==
    \/ \E id \in {"storytelling-core"}, notes \in Notes, w \in Stored : updateNodeNotes(id, notes, w)
    \/ \E data \in {[from |-> "heros-journey", to |-> "domain-sound",
                      explanation |-> "why"]},
          w \in Stored : addConnection(data, w)
    \/ \E id \in {"heros-journey"} : selectNode(id)
    \/ \E id \in {"domain-sound"} : toggleDomainExpand(id)
    \/ \E m \in {"explore", "build"} : setMode(m)
    \/ \E value \in {"domain"} : setFilter("layer", value)
    \/ \E w \in Stored : reset(w)

SpecReset == Init /\ [][NextReset]_vars

(* ------------------------------------------------- clicks in the 3D view *)
\* The page has run its init: the onNodeClick callback is registered.


\* onMouseMove(event) and checkHover(): hit is the nodeId of the first mesh
\* under the pointer, null when there is none
checkHover(hit) ==
    /\ hoveredNode' = hit
    /\ event' = [name |-> "mousemove", hit |-> hit]
    /\ confirms' = 0
    /\ UNCHANGED <<expandedDomain, clicked>>
    /\ UNCHANGED <<selectedNodeId, expandedDomains, last, calls, written, logged>>
    /\ UNCHANGED <<nodes, connections, mode, filters, listeners, unsubscribers,
                   moduleState, storage, uuids, arg, out, signals, tutor, searchState>>

\* a test that takes every node of the domain layer for a group parent
isGroupParentAnyDomainNode(node) ==
    node # NoNode /\ node.layer = "domain"

\* node && node.layer === 'domain' && !node.subgroup
isGroupParent(node) ==
    node # NoNode /\ node.layer = "domain" /\ Falsy(node.subgroup)

\* the store.toggleDomainExpand calls domainsRing.expandDomain(domainId)
\* makes, in order: the collapse of the expanded domain when it is the one
\* given, the collapse of another expanded domain and the expansion otherwise
expandDomainToggles(domainId) ==
    IF expandedDomain = domainId THEN <<domainId>>
    ELSE IF expandedDomain # null THEN <<expandedDomain, domainId>>
    ELSE <<domainId>>

\* state.expandedDomains after toggleDomainExpand for each id of t in turn
RECURSIVE toggleAll(_, _)
toggleAll(set, t) ==
    IF t = <<>> THEN set
    ELSE toggleAll(IF Head(t) \in set THEN set \ {Head(t)} ELSE set \cup {Head(t)}, Tail(t))

\* onClick(event): every store call of the handler notifies the listeners
onClick ==
    LET node == getNodeById(hoveredNode)
        toggles == IF hoveredNode # null /\ isGroupParent(node)
                   THEN expandDomainToggles(hoveredNode) ELSE <<>>
    IN /\ expandedDomain' = IF toggles = <<>> THEN expandedDomain
                            ELSE IF expandedDomain = hoveredNode THEN null
                            ELSE hoveredNode
       /\ expandedDomains' = toggleAll(expandedDomains, toggles)
       /\ selectedNodeId' = hoveredNode
       /\ clicked' = <<IF hoveredNode # null THEN node ELSE None>>
       /\ last' = IF hoveredNode # null
                  THEN Returned("selectNode", [id |-> hoveredNode], null)
                  ELSE Returned("deselectNode", NoArgs, null)
       /\ calls' = [l \in Listeners |-> IF l \in listeners THEN Len(toggles) + 1 ELSE 0]
       /\ written' = 0 /\ logged' = 0
       /\ event' = [name |-> "click", toggles |-> toggles]
       /\ confirms' = 0
       /\ UNCHANGED hoveredNode
       /\ UNCHANGED <<nodes, connections, mode, filters, listeners, unsubscribers,
                   moduleState, storage, uuids, arg, out, signals, tutor, searchState>>


NextClick ==
    \/ \E hit \in {null, "heros-journey", "domain-sound", "sound-production",
                    "domain-camera"} : checkHover(hit)
    \/ onClick
    \/ \E data \in {[id |-> "domain-camera", title |-> "Camera", layer |-> "domain",
                      domain |-> "camera"]},
          w \in Stored :
          (\A i \in 1..Len(nodes) : nodes[i].id # data.id) /\ addNode(data, w)
    \/ \E w \in Stored : reset(w)

SpecClick == Init /\ [][NextClick]_vars

(* ------------------------------------------- deleting the selected node *)
\* getSelectedNode(): null without a selection, what getNodeById finds otherwise
getSelectedNode ==
    IF Falsy(selectedNodeId) THEN None ELSE getNodeById(selectedNodeId)

\* selectNode(id) of the signals module
sigSelectNode(id) ==
    /\ sigSelectedNodeId' = id
    /\ handled("selectNode", [id |-> id], FALSE)
    /\ UNCHANGED <<sigNodes, sigConnections, sigMode, sigExpandedDomains>>
    /\ UNCHANGED sigFrame

NextDelete ==
    \/ \E id \in {"heros-journey", "domain-sound"} : selectNode(id)
    \/ \E id \in {"domain-sound"} : toggleDomainExpand(id)
    \/ \E m \in {"build"} : setMode(m)
    \/ \E value \in {"domain"} : setFilter("layer", value)
    \/ \E id \in {"heros-journey", "n1"}, w \in Stored : deleteNode(id, w)
    \/ \E id \in {"heros-journey", "domain-sound"} : sigSelectNode(id)
    \/ \E m \in {"build"} : sigSetMode(m)
    \/ \E id \in {"heros-journey", "n1"} : sigDeleteNode(id)

SpecDelete == Init /\ [][NextDelete]_vars

(* ------------------------------------------------------------- the tutor *)
\* askTutor calls a run accepts
MaxAsks == 2

\* what the functions of the tutor leave alone
tutorFrame == <<wholeStore, arg, out, confirms, clicked, hoveredNode, expandedDomain,
                signals, searchState>>

\* the elements of a sequence
Range(q) == {q[i] : i \in 1..Len(q)}

\* initAITutor(): no await in its body, so 'loading' is never seen by another
\* function; the page calls it once, before anything else of the tutor
initAITutor ==
    /\ aiStatus = "idle"
    /\ aiStatus' = "ready"
    /\ event' = [name |-> "initAITutor"]
    /\ UNCHANGED <<aiMessages, thinking, asks, cleared>>
    /\ UNCHANGED tutorFrame

\* generateResponse(query): the tip of the topic the query names, the fallback
\* text for any other string
generateResponse(query) ==
    CASE query = "three-point lighting" -> "tip: three-point lighting"
      [] OTHER -> "fallback"


\* an askTutor without the test of aiStatus
askTutorWhileThinking(userMessage) ==
    LET messages == Append(aiMessages, [role |-> "user", content |-> userMessage,
                                        obj |-> asks + 1])
    IN /\ asks < MaxAsks
       /\ aiStatus' = "thinking"
       /\ aiMessages' = messages
       /\ thinking' = thinking \cup {[userMessage |-> userMessage,
                                      messages |-> messages, obj |-> asks + 1]}
       /\ asks' = asks + 1
       /\ event' = [name |-> "askTutor", userMessage |-> userMessage, accepted |-> TRUE]
       /\ UNCHANGED cleared
       /\ UNCHANGED tutorFrame

\* askTutor(userMessage) up to its await: the call returns at once unless
\* aiStatus is 'ready'; obj is the identity of the message object it creates
askTutor(userMessage) ==
    IF aiStatus # "ready"
    THEN /\ event' = [name |-> "askTutor", userMessage |-> userMessage, accepted |-> FALSE]
         /\ UNCHANGED <<aiStatus, aiMessages, thinking, asks, cleared>>
         /\ UNCHANGED tutorFrame
    ELSE LET messages == Append(aiMessages, [role |-> "user", content |-> userMessage,
                                             obj |-> asks + 1])
         IN /\ asks < MaxAsks
            /\ aiStatus' = "thinking"
            /\ aiMessages' = messages
            /\ thinking' = thinking \cup {[userMessage |-> userMessage,
                                           messages |-> messages, obj |-> asks + 1]}
            /\ asks' = asks + 1
            /\ event' = [name |-> "askTutor", userMessage |-> userMessage,
                         accepted |-> TRUE]
            /\ UNCHANGED cleared
            /\ UNCHANGED tutorFrame

\* askTutor after its await, for the call t: the timer has fired; the answer,
\* or the apology of the catch block when query.toLowerCase() throws for a
\* query that is no string, goes behind the messages the call captured before
\* the await
answer(t) ==
    LET content == IF t.userMessage = undefined THEN "sorry"
                   ELSE generateResponse(t.userMessage)
    IN /\ t \in thinking
       /\ aiMessages' = Append(t.messages, [role |-> "assistant", content |-> content,
                                            obj |-> t.obj])
       /\ aiStatus' = "ready"
       /\ thinking' = thinking \ {t}
       /\ event' = [name |-> "answer", obj |-> t.obj]
       /\ UNCHANGED <<asks, cleared>>
       /\ UNCHANGED tutorFrame

\* clearChat(); cleared collects the message objects it removed
clearChat ==
    /\ aiMessages' = <<>>
    /\ cleared' = cleared \cup Range(aiMessages)
    /\ event' = [name |-> "clearChat", removed |-> Len(aiMessages)]
    /\ UNCHANGED <<aiStatus, thinking, asks>>
    /\ UNCHANGED tutorFrame


NextTutor ==
    \/ initAITutor
    \/ \E userMessage \in {"three-point lighting", "what is pacing", undefined} : askTutor(userMessage)
    \/ \E t \in thinking : answer(t)
    \/ clearChat

SpecTutor == Init /\ [][NextTutor]_vars

\* the timer of an accepted call fires
SpecTutorFair == SpecTutor /\ WF_vars(\E t \in thinking : answer(t))

(* ------------------------------------------------------------ the search *)
\* performSearch calls that may wait for oramaSearch at one time
MaxSearches == 2


\* the titles of the hits oramaSearch returns for a term, over the index of
\* the seed nodes of the model
oramaSearch(term) ==
    CASE term = "so" -> <<"Sound", "Production Sound">>
      [] term = "he" -> <<"Hero's Journey">>
      [] OTHER -> <<>>

\* !query || query.length < 2
TooShort(query) == Len(query) < 2

\* searchQuery.value = query with the effect it triggers: the effect runs when
\* the value has changed; a short query empties the results at once, any other
\* starts performSearch(query), which waits for oramaSearch
setSearchQuery(query) ==
    /\ searchQuery' = query
    /\ event' = [name |-> "searchQuery", query |-> query]
    /\ IF query = searchQuery
       THEN UNCHANGED <<searchResults, searching>>
       ELSE IF TooShort(query)
       THEN searchResults' = <<>> /\ UNCHANGED searching
       ELSE /\ Len(searching) < MaxSearches
            /\ searching' = Append(searching, query)
            /\ UNCHANGED searchResults
    /\ UNCHANGED <<wholeStore, arg, out, confirms, clicked, hoveredNode, expandedDomain,
                   signals, tutor>>

\* performSearch after its await, for the k-th waiting call: the hits of the
\* query the call was started with become the results
performSearch(k) ==
    /\ k \in 1..Len(searching)
    /\ searchResults' = oramaSearch(searching[k])
    /\ searching' = SubSeq(searching, 1, k - 1) \o SubSeq(searching, k + 1, Len(searching))
    /\ event' = [name |-> "performSearch", query |-> searching[k]]
    /\ UNCHANGED searchQuery
    /\ UNCHANGED <<wholeStore, arg, out, confirms, clicked, hoveredNode, expandedDomain,
                   signals, tutor>>


NextSearch ==
    \/ \E query \in {"", "s", "so", "he", "zz"} : setSearchQuery(query)
    \/ \E k \in 1..MaxSearches : performSearch(k)

SpecSearch == Init /\ [][NextSearch]_vars

(* ------------------------------------------------- load over any payload *)
\* what the key may hold for nodes and for connections when it was not this
\* store that wrote it
StoredNodes ==
    {<<>>,
     <<StringifyObject(createNode([id |-> "n1", title |-> "X", layer |-> "structure"], ""))>>,
     NotAnArray("5"), NotAnArray("null")}
StoredConnections ==
    {<<>>,
     <<[id |-> "c1", from |-> "n1", to |-> "n2", explanation |-> "", strength |-> 3]>>,
     NotAnArray("5")}

\* the payloads load() may find: none, one JSON.parse throws on, the JSON
\* null, and objects with and without the two properties
LoadPayloads ==
    {Absent, Corrupt, ParsedNull, [kind |-> "json"]}
    \cup {[kind |-> "json", nodes |-> n] : n \in StoredNodes}
    \cup {[kind |-> "json", connections |-> c] : c \in StoredConnections}
    \cup {[kind |-> "json", nodes |-> n, connections |-> c] :
             n \in StoredNodes, c \in StoredConnections}

\* another writer of the same origin calls localStorage.setItem(STORAGE_KEY, p)
setItem(p) ==
    /\ storage' = p
    /\ last' = Returned("setItem", [value |-> p], null)
    /\ UNCHANGED <<storeState, listeners, unsubscribers, moduleState, uuids, calls,
                   written, logged>>
    /\ UNCHANGED others

NextLoad ==
    \/ \E p \in LoadPayloads : setItem(p)
    \/ constructor

SpecLoad == Init /\ [][NextLoad]_vars

(* ---------------------------------------------------------------- getters *)
\* a filter that looks at the from end only
getConnectionsForNodeFrom(c, nodeId) == SelectSeq(c, LAMBDA e : e.from = nodeId)

\* connections.filter(c => c.from === nodeId || c.to === nodeId)
getConnectionsForNode(c, nodeId) ==
    SelectSeq(c, LAMBDA e : e.from = nodeId \/ e.to = nodeId)

\* nodes.filter(...): the layer and the domain criterion are looked at,
\* filters.intent is not
getFilteredNodes(n, f) ==
    SelectSeq(n, LAMBDA node :
        /\ ~(~Falsy(f.layer) /\ node.layer # f.layer)
        /\ ~(~Falsy(f.domain) /\ node.domain # f.domain))

callGetConnectionsForNode(nodeId) ==
    /\ arg' = [getter |-> "getConnectionsForNode", nodeId |-> nodeId]
    /\ out' = [value |-> getConnectionsForNode(connections, nodeId)]
    /\ UNCHANGED store

callGetFilteredNodes ==
    /\ arg' = [getter |-> "getFilteredNodes"]
    /\ out' = [value |-> getFilteredNodes(nodes, filters)]
    /\ UNCHANGED store

\* a payload an earlier session left: two nodes, one of them carrying an
\* intent, two connections between the same pair of nodes, one the other way
\* round and one from a node to itself
PairedPayload ==
    [kind |-> "json",
     nodes |-> <<StringifyObject(createNode([id |-> "n1", title |-> "X",
                                             layer |-> "structure"], "")),
                 Spread(StringifyObject(createNode([id |-> "n2", title |-> "Y",
                                                    layer |-> "domain",
                                                    domain |-> "sound"], "")),
                        [intent |-> "mood"])>>,
     connections |-> <<[id |-> "c1", from |-> "n1", to |-> "n2",
                        explanation |-> "", strength |-> 3],
                       [id |-> "c2", from |-> "n1", to |-> "n2",
                        explanation |-> "", strength |-> 3],
                       [id |-> "c3", from |-> "n2", to |-> "n2",
                        explanation |-> "", strength |-> 3],
                       [id |-> "c4", from |-> "n2", to |-> "n1",
                        explanation |-> "", strength |-> 3]>>]

\* the ids getConnectionsForNode is called with: nodes, and an id no node has
QueryIds == {"n1", "n2", "domain-sound", "ghost"}

\* the values setFilter is called with, by key
FilterValues ==
    [layer |-> {"", "domain"}, domain |-> {"", "sound"}, intent |-> {"", "mood"}]

\* the ids deleteNode and deleteConnection are called with between queries
QueryDeleteIds == {"n1"}
QueryConnectionIds == {"c1"}

InitQuery ==
    /\ StoreInitOver({Absent, PairedPayload})
    /\ CollaboratorsInitOver(Absent)
    /\ arg = None
    /\ out = None

NextQuery ==
    \/ \E key \in DOMAIN FilterValues : \E value \in FilterValues[key] : setFilter(key, value)
    \/ clearFilters
    \/ \E id \in QueryDeleteIds, w \in Stored : deleteNode(id, w)
    \/ \E id \in QueryConnectionIds, w \in Stored : deleteConnection(id, w)
    \/ \E nodeId \in QueryIds : callGetConnectionsForNode(nodeId)
    \/ callGetFilteredNodes

SpecQuery == InitQuery /\ [][NextQuery]_vars

(* ----------------------------------------------------------------- claims *)
\* d is the array c cut down to the positions in I, in the order of c
RestrictedTo(d, c, I) ==
    /\ Len(d) = Cardinality(I)
    /\ \A i \in I : d[Cardinality({j \in I : j <= i})] = c[i]

\* C1: deleteNode(id) leaves exactly the connections whose from and to both
\* differ from id, in their prior order, and removes every other connection.
C1_DeleteNodeCascade ==
    [][last'.op = "deleteNode" =>
         RestrictedTo(connections', connections,
                      {i \in 1..Len(connections) :
                         /\ connections[i].from # last'.args.id
                         /\ connections[i].to # last'.args.id})]_vars

\* with A->B and B->C added to or present beside A->C, deleting B left A->C
C1_Witness ==
    /\ last.op = "deleteNode"
    /\ last.args.id = "domain-sound"
    /\ \E i \in 1..Len(DEFAULT_CONNECTIONS) :
         /\ DEFAULT_CONNECTIONS[i].from = "heros-journey"
         /\ DEFAULT_CONNECTIONS[i].to = "domain-sound"
    /\ connections = <<DefaultConnections[1]>>

\* C2: after reset() the store holds as many nodes and as many connections as
\* the seed taxonomy and the default connection set have, whatever came before.
C2_ResetSeedCounts ==
    last.op = "reset" =>
        /\ Len(nodes) = Len(getAllInitialNodes(SeedObjects))
        /\ Len(connections) = Len(DefaultConnections)

\* C3: a call of addNode, updateNode or addConnection that returns
\* {success: false} leaves nodes, connections, mode, selectedNodeId, filters
\* and expandedDomains as they were, writes nothing and notifies nobody.
C3_RejectionChangesNothing ==
    [][(last'.op \in {"addNode", "updateNode", "addConnection"} /\ ~last'.success) =>
         /\ UNCHANGED storeState
         /\ storage' = storage
         /\ written' = 0
         /\ \A l \in Listeners : calls'[l] = 0]_vars

\* a subscribed listener saw a build-mode update rejected
C3_Witness ==
    /\ last.op = "updateNode"
    /\ ~last.success
    /\ last.error = ErrTitle
    /\ mode = "build"
    /\ listeners # {}
    /\ FindIndex(nodes, last.args.id) # 0

\* the title of the data is absent or empty once trimmed
TitleEmptyAfterTrim(d) ==
    \/ "title" \notin DOMAIN d
    \/ d.title = null
    \/ Trim(d.title) = ""

\* the data is a domain-layer node without a domain
DomainLayerWithoutDomain(d) ==
    /\ Get(d, "layer") = "domain"
    /\ Get(d, "domain") \in {"", null, undefined}

\* C4: in build mode addNode rejects a title that is empty after trimming with
\* the missing-title error and, the title being there, a domain-layer node
\* without a domain with the missing-domain error; the node count stays.
C4_BuildRejectsInvalid ==
    [][(last'.op = "addNode" /\ mode = "build") =>
         /\ TitleEmptyAfterTrim(last'.args) =>
              /\ ~last'.success
              /\ last'.error = ErrTitle
              /\ Len(nodes') = Len(nodes)
         /\ (~TitleEmptyAfterTrim(last'.args) /\ DomainLayerWithoutDomain(last'.args)) =>
              /\ ~last'.success
              /\ last'.error = ErrDomain
              /\ Len(nodes') = Len(nodes)]_vars

\* build mode rejected a title of white space
C4_Witness ==
    /\ last.op = "addNode"
    /\ mode = "build"
    /\ last.args.title = " "
    /\ last.error = ErrTitle

\* C5: in explore mode addNode succeeds for every data object and the store
\* holds exactly one more node afterwards.
C5_ExploreAcceptsAll ==
    [][(last'.op = "addNode" /\ mode = "explore") =>
         /\ last'.success
         /\ Len(nodes') = Len(nodes) + 1]_vars

\* explore mode took a node with an empty title
C5_Witness ==
    /\ last.op = "addNode"
    /\ mode = "explore"
    /\ last.args.title = ""
    /\ last.success
    /\ nodes[Len(nodes)].title = "Untitled"

\* value-or-default(3) read as: the value when one is given, 3 otherwise
ValueOrDefault(d) == IF "strength" \in DOMAIN d THEN d.strength ELSE 3

\* C6 as stated: createConnection returns a strength within 1..5 equal to
\* min(5, max(1, value-or-default(3))) for every integer strength, zero
\* included, and for an omitted one.
C6_ClampOfValueOrDefault ==
    out # None =>
        /\ out.strength \in 1..5
        /\ out.strength = Min(5, Max(1, ValueOrDefault(arg)))

\* C6: createConnection returns a strength within 1..5 equal to
\* min(5, max(1, v)), where v is the given strength when it is a non-zero
\* integer and 3 when the strength is omitted or zero.
C6_ClampOfTruthyOrDefault ==
    out # None =>
        /\ out.strength \in 1..5
        /\ out.strength =
             Min(5, Max(1, IF "strength" \in DOMAIN arg /\ arg.strength # 0
                           THEN arg.strength ELSE 3))

\* a strength of zero came back as 3
C6_Witness ==
    /\ out # None
    /\ "strength" \in DOMAIN arg
    /\ arg.strength = 0
    /\ out.strength = 3

\* C7: every connection the store holds has a strength within 1..5.
C7_StoredStrengthInRange ==
    \A i \in 1..Len(connections) : connections[i].strength \in 1..5

\* the node has a domain exactly when its layer is domain
DomainIffDomainLayer(n) == (n.layer = "domain") <=> (n.domain # null)

\* C8: a node that addNode or updateNode accepted in build mode has a domain
\* exactly when its layer is domain.
C8_ValidatedDomainIffLayer ==
    /\ (last.op = "addNode" /\ last.success /\ mode = "build") =>
           DomainIffDomainLayer(nodes[Len(nodes)])
    /\ (last.op = "updateNode" /\ last.success /\ mode = "build") =>
           DomainIffDomainLayer(nodes[FindIndex(nodes, last.args.id)])

\* C9: while the mode is build no node of the store is flagged unclear.
C9_BuildModeNothingUnclear ==
    mode = "build" => \A i \in 1..Len(nodes) : ~nodes[i].unclear

\* C10: updateNodeNotes on an existing node sets its personalNote, writes the
\* state to storage and invokes no listener; a successful updateNode invokes
\* every subscribed listener once.
C10_NotesAreSilent ==
    [][/\ (last'.op = "updateNodeNotes" /\ FindIndex(nodes, last'.args.id) # 0) =>
            /\ nodes'[FindIndex(nodes, last'.args.id)].personalNote = last'.args.notes
            /\ written' = 1
            /\ storage' = Stringify(nodes', connections')
            /\ \A l \in Listeners : calls'[l] = 0
       /\ (last'.op = "updateNode" /\ last'.success) =>
            \A l \in listeners : calls'[l] = 1]_vars

\* a note was stored on an existing node while a listener was subscribed
C10_Witness ==
    /\ last.op = "updateNodeNotes"
    /\ listeners # {}
    /\ FindIndex(nodes, last.args.id) # 0
    /\ nodes[FindIndex(nodes, last.args.id)].personalNote = "memo"
    /\ written = 1
    /\ \A l \in Listeners : calls[l] = 0

(* --------------------------------------------------------------- C11..C20 *)
\* the field values of an array of nodes, whichever objects hold them
Values(n) == [i \in 1..Len(n) |-> StringifyObject(n[i])]

\* a reload that finds in localStorage what the store it replaces holds
ReloadOfSaved ==
    /\ last'.op = "constructor"
    /\ storage = Stringify(nodes, connections)

\* C11 as stated: whatever state was saved, a store constructed over the saved
\* payload holds the same nodes and the same connections, in the same order
\* and with the same field values, the empty node list included
C11_RoundTripAlways ==
    [][ReloadOfSaved =>
         /\ Values(nodes') = Values(nodes)
         /\ connections' = connections]_vars

\* C11: when the saved state holds at least one node, a store constructed
\* over the saved payload holds the same nodes and the same connections, in
\* the same order and with the same field values; when it holds no node, the
\* new store holds the seed nodes and the default connections
C11_RoundTripUnlessEmpty ==
    [][ReloadOfSaved =>
         IF Len(nodes) > 0
         THEN /\ Values(nodes') = Values(nodes)
              /\ connections' = connections
         ELSE /\ nodes' = getAllInitialNodes(SeedObjects)
              /\ connections' = DefaultConnections]_vars

\* a store constructed over a payload an earlier store saved after adding a
\* node and a note
C11_Witness ==
    /\ last.op = "constructor"
    /\ storage = Stringify(nodes, connections)
    /\ \E i \in 1..Len(nodes) : nodes[i].id = Uuid(1)
    /\ \E i \in 1..Len(nodes) : nodes[i].personalNote = "memo"
    /\ ~connectionsIsDefault

\* the positions of the connections with an end at id
EndsAt(id) == {i \in 1..Len(connections) : connections[i].from = id \/ connections[i].to = id}

\* C12: getConnectionsForNode(id) returns the connections whose from or to is
\* id, each once per position it holds in the store and in the store's order,
\* and the empty array when there is none, also for an id no node has
C12_ConnectionsForNode ==
    [][UNCHANGED store /\ Get(arg', "getter") = "getConnectionsForNode" =>
         RestrictedTo(out'.value, connections, EndsAt(arg'.nodeId))]_vars

\* getConnectionsForNode has returned two connections between the same pair
\* of nodes together with one that ends, not starts, at the node
C12_Witness ==
    /\ Get(arg, "getter") = "getConnectionsForNode"
    /\ \E i, j, k \in 1..Len(out.value) :
          /\ i < j
          /\ out.value[i].from = arg.nodeId /\ out.value[j].from = arg.nodeId
          /\ out.value[i].to = out.value[j].to
          /\ out.value[k].to = arg.nodeId /\ out.value[k].from # arg.nodeId

\* a node meets a criterion when the criterion is empty or the node's
\* property of that name has the criterion's value
Meets(node, key) == filters[key] = "" \/ Get(node, key) = filters[key]

\* the positions of the nodes that meet the layer, the domain and the intent
\* criterion
MeetAll == {i \in 1..Len(nodes) : \A key \in {"layer", "domain", "intent"} : Meets(nodes[i], key)}

\* C20: getFilteredNodes() returns the nodes that meet the layer, the domain
\* and the intent criterion, in the store's order; a criterion that is not
\* empty, the intent criterion too, keeps out the nodes that do not meet it
C20_FilteredByAllThree ==
    [][UNCHANGED store /\ Get(arg', "getter") = "getFilteredNodes" =>
         RestrictedTo(out'.value, nodes, MeetAll)]_vars

\* a payload that is absent, unparseable, without an array of nodes or an
\* array of connections, or with an empty array of nodes
Defective(st) ==
    \/ st.kind # "json"
    \/ "nodes" \notin DOMAIN st
    \/ "connections" \notin DOMAIN st
    \/ ~IsArray(st.nodes)
    \/ ~IsArray(st.connections)
    \/ Len(st.nodes) = 0

\* C13: whatever the key holds, the constructor leaves nodes and connections
\* arrays, and over a payload that is absent, corrupt or without nodes it
\* leaves the seed nodes and the default connections
C13_InitValid ==
    last.op = "constructor" =>
        /\ IsArray(nodes)
        /\ IsArray(connections)
        /\ Defective(storage) =>
              /\ nodes = getAllInitialNodes(SeedObjects)
              /\ connections = DefaultConnections

\* what the call recorded in last' did to nodes and connections
Applied ==
    LET a == last'.args
    IN CASE last'.op = "addNode" ->
              /\ SubSeq(nodes', 1, Len(nodes)) = nodes
              /\ Len(nodes') = Len(nodes) + 1
              /\ nodes'[Len(nodes')].id = a.id
              /\ connections' = connections
         [] last'.op = "updateNode" ->
              /\ \E i \in 1..Len(nodes) :
                    /\ nodes[i].id = a.id
                    /\ nodes' = [nodes EXCEPT ![i] = Spread(Spread(nodes[i], a.updates),
                                                             [obj |-> 0])]
              /\ connections' = connections
         [] last'.op = "updateNodeNotes" ->
              /\ \E i \in 1..Len(nodes) :
                    /\ nodes[i].id = a.id
                    /\ nodes' = [nodes EXCEPT ![i].personalNote = a.notes]
              /\ connections' = connections
         [] last'.op = "deleteNode" ->
              /\ RestrictedTo(nodes', nodes, {i \in 1..Len(nodes) : nodes[i].id # a.id})
              /\ RestrictedTo(connections', connections,
                              {i \in 1..Len(connections) :
                                 connections[i].from # a.id /\ connections[i].to # a.id})
         [] last'.op = "addConnection" ->
              /\ SubSeq(connections', 1, Len(connections)) = connections
              /\ Len(connections') = Len(connections) + 1
              /\ connections'[Len(connections')].id = a.id
              /\ nodes' = nodes
         [] last'.op = "deleteConnection" ->
              /\ RestrictedTo(connections', connections,
                              {i \in 1..Len(connections) : connections[i].id # a.id})
              /\ nodes' = nodes
         [] last'.op = "reset" ->
              /\ nodes' = getAllInitialNodes(SEED_NODES)
              /\ connections' = DEFAULT_CONNECTIONS
         [] OTHER -> FALSE

\* C14: a call whose write fails changes nodes and connections as the call
\* does, invokes the subscribers as the call does, returns success without an
\* error, and leaves localStorage as it was; a later call whose write
\* succeeds stores the nodes and connections of that time
C14_FailedWriteOnlyLogged ==
    [][/\ written' = 1 /\ logged' = 1 =>
            /\ Applied
            /\ calls' = [l \in Listeners |->
                           IF l \in listeners /\ last'.op # "updateNodeNotes" THEN 1 ELSE 0]
            /\ last'.success /\ last'.error = null
            /\ storage' = storage
       /\ written' = 1 /\ logged' = 0 => storage' = Stringify(nodes', connections')]_vars

\* addNode has added its node and invoked the subscriber although its write
\* failed, and localStorage holds an older state
C14_Witness ==
    /\ last.op = "addNode" /\ last.success
    /\ written = 1 /\ logged = 1
    /\ calls["L1"] = 1
    /\ \E i \in 1..Len(nodes) : nodes[i].id = "n7"
    /\ storage # Stringify(nodes, connections)

\* the calls that end in notify() alone, and those that end in save() and
\* notify()
ViewCalls == {"setMode", "selectNode", "deselectNode", "setFilter", "clearFilters",
              "toggleDomainExpand"}
DataCalls == {"addNode", "updateNode", "deleteNode", "addConnection",
              "deleteConnection", "reset"}

\* the call recorded in last invoked every listener of the set once
Notified == \A l \in Listeners : calls[l] = IF l \in listeners THEN 1 ELSE 0

\* C15 as stated: each of the twelve calls that run notify() has also written
\* to localStorage
C15_EveryNotifyingCallWrites ==
    last.op \in ViewCalls \cup DataCalls /\ last.success => Notified /\ written = 1

\* C15: the six calls that change nodes or connections, when they succeed,
\* write {nodes, connections} to localStorage and run notify(); the six calls
\* that change mode, selection, filters or expansion run notify() and write
\* nothing
C15_DataCallsWriteViewCallsDoNot ==
    /\ last.op \in DataCalls /\ last.success =>
          /\ Notified
          /\ written = 1
          /\ storage = Stringify(nodes, connections)
    /\ last.op \in ViewCalls => Notified /\ written = 0

\* deleteNode has invoked the subscriber and written the state it left
C15_Witness ==
    /\ last.op = "deleteNode"
    /\ calls["L1"] = 1
    /\ written = 1
    /\ storage = Stringify(nodes, connections)
    /\ \A i \in 1..Len(nodes) : nodes[i].id # last.args.id

\* the unsubscribe functions subscribe(l) calls returned
Closures(l) == {k \in 1..Len(unsubscribers) : unsubscribers[k].listener = l}

\* l has a subscription whose unsubscribe function nobody called
Live(l) == \E k \in Closures(l) : ~unsubscribers[k].called

\* the call recorded in last ran notify()
Notifying == last.op \in ViewCalls \cup DataCalls /\ last.success

\* C16 as stated: a notifying call invokes once each callback that has a
\* subscription not yet unsubscribed, whatever else was subscribed or
\* unsubscribed, the same function a second time included, and invokes no other
C16_EverySubscriptionCounts ==
    Notifying => \A l \in Listeners : calls[l] = IF Live(l) THEN 1 ELSE 0

\* C16: the listeners are a set of functions. subscribe leaves its function in
\* the set, an unsubscribe function leaves the function it was returned for
\* out of it each time it is called, and a notifying call invokes the members
\* once and nothing else; so a function none of whose unsubscribe functions
\* was called is invoked whatever happened to other functions, and one whose
\* unsubscribe functions were all called is not
C16_ListenersAreASet ==
    /\ last.op = "subscribe" => last.args.listener \in listeners
    /\ last.op = "unsubscribe" =>
          /\ unsubscribers[last.args.subscription].called
          /\ unsubscribers[last.args.subscription].listener \notin listeners
    /\ \A l \in Listeners :
          /\ Closures(l) # {} /\ (\A k \in Closures(l) : ~unsubscribers[k].called)
                => l \in listeners
          /\ (\A k \in Closures(l) : unsubscribers[k].called) => l \notin listeners
    /\ Notifying => Notified
    /\ last.op \in {"subscribe", "unsubscribe", "updateNodeNotes"} =>
          \A l \in Listeners : calls[l] = 0

\* two functions subscribed, the first unsubscribed, and a notifying call has
\* invoked the second alone
C16_Witness ==
    /\ Notifying
    /\ Len(unsubscribers) = 2
    /\ unsubscribers[1].listener # unsubscribers[2].listener
    /\ unsubscribers[1].called /\ ~unsubscribers[2].called
    /\ calls[unsubscribers[1].listener] = 0
    /\ calls[unsubscribers[2].listener] = 1

\* C17: updateNode with an id no node has returns {success: false} with the
\* node-not-found error, in explore and in build mode, and leaves the store's
\* state and localStorage as they were and the subscribers alone
C17_UnknownIdNotFound ==
    [][(last'.op = "updateNode" /\ \A i \in 1..Len(nodes) : nodes[i].id # last'.args.id) =>
         /\ ~last'.success
         /\ last'.error = ErrNotFound
         /\ UNCHANGED storeState
         /\ storage' = storage
         /\ written' = 0
         /\ \A l \in Listeners : calls'[l] = 0]_vars

\* build mode has answered node-not-found for an id that no node of a
\* non-empty store has
C17_Witness ==
    /\ last.op = "updateNode"
    /\ last.error = ErrNotFound
    /\ mode = "build"
    /\ Len(nodes) > 0
    /\ \A i \in 1..Len(nodes) : nodes[i].id # last.args.id

\* C18: in build mode updateNode of an id some node has is rejected, with
\* nodes as they were, exactly when the node merged with the updates fails
\* validateNode; otherwise the first node of that id is replaced by the merged
\* node and every other node keeps its value and its position
C18_BuildValidatesMerged ==
    [][(last'.op = "updateNode" /\ mode = "build" /\ FindIndex(nodes, last'.args.id) > 0) =>
         LET index == FindIndex(nodes, last'.args.id)
             merged == Spread(nodes[index], last'.args.updates)
         IN /\ last'.success <=> validateNode(merged) = null
            /\ ~last'.success => nodes' = nodes /\ last'.error = validateNode(merged)
            /\ last'.success =>
                  /\ Len(nodes') = Len(nodes)
                  /\ StringifyObject(nodes'[index]) = StringifyObject(merged)
                  /\ \A j \in 1..Len(nodes) : j # index => nodes'[j] = nodes[j]]_vars

\* build mode has accepted updates that would not pass validateNode on their
\* own: they carry no title
C18_Witness ==
    /\ last.op = "updateNode"
    /\ last.success
    /\ mode = "build"
    /\ validateNode(last.args.updates) # null
    /\ \E i \in 1..Len(nodes) :
          nodes[i].id = last.args.id /\ nodes[i].layer = Get(last.args.updates, "layer")

\* a property that is not there, or is there and falsy
AbsentOrEmpty(d, f) == Get(d, f) \in {"", null, undefined}

\* C19: addConnection answers missing-endpoint when from or to is absent, in
\* either mode and whatever the explanation; with both there it answers
\* missing-explanation when the mode is build and the explanation is empty;
\* a rejected call leaves the connections as they were; any other call
\* appends the one connection createConnection builds, whether or not a node
\* has the endpoints' ids
C19_AddConnectionChecks ==
    [][last'.op = "addConnection" =>
         LET d == last'.args
         IN IF AbsentOrEmpty(d, "from") \/ AbsentOrEmpty(d, "to")
            THEN /\ ~last'.success
                 /\ last'.error = ErrEndpoint
                 /\ connections' = connections
            ELSE IF mode = "build" /\ AbsentOrEmpty(d, "explanation")
            THEN /\ ~last'.success
                 /\ last'.error = ErrExplanation
                 /\ connections' = connections
            ELSE /\ last'.success
                 /\ connections' = Append(connections, createConnection(d, Uuid(uuids + 1)))]_vars

\* explore mode has appended a connection without an explanation to an id
\* that no node has
C19_Witness ==
    /\ last.op = "addConnection"
    /\ last.success
    /\ Get(last.args, "to") = "n2"
    /\ Get(last.args, "explanation") = ""
    /\ \A i \in 1..Len(nodes) : nodes[i].id # "n2"
    /\ Len(connections) > 0
    /\ connections[Len(connections)].to = "n2"

(* --------------------------------------------------------------- C21..C30 *)
\* C21: whenever the user interface takes the store from explore to build
\* while a node is flagged unclear, its handler has asked window.confirm once
\* and was answered yes; and a handler that was answered no leaves the mode
\* as it was
C21_WarnedBeforeBuild ==
    [][/\ (mode = "explore" /\ mode' = "build" /\ hasUnclear) =>
            /\ confirms' = 1
            /\ Get(event', "answer") = TRUE
       /\ (confirms' = 1 /\ Get(event', "answer") = FALSE) => mode' = mode]_vars

\* C22: whenever the Store and the signals module have handled the same calls
\* of setMode, addNode, deleteNode, addConnection, deleteConnection and reset,
\* they hold the same nodes and the same connections.
C22_SameGraph ==
    InStep => /\ Values(sigNodes) = Values(nodes)
              /\ sigConnections = connections

\* C23: no two nodes of the collection have the same id, whatever addNode,
\* updateNode, deleteNode and reset were called with.
C23_IdsUnique ==
    \A i, j \in 1..Len(nodes) : nodes[i].id = nodes[j].id => i = j

\* C24: a call of reset() leaves every node and every connection with the
\* field values of the seed taxonomy and of the default connections, no node
\* selected and no domain expanded, and the mode and the filters as they were.
C24_ResetRestoresSeed ==
    [][last'.op = "reset" =>
          /\ Values(nodes') = Values(getAllInitialNodes(SeedObjects))
          /\ connections' = DefaultConnections
          /\ selectedNodeId' = null
          /\ expandedDomains' = {}
          /\ mode' = mode
          /\ filters' = filters]_vars

\* a step of onClick
ClickStep ==
    /\ Get(event', "name") = "click"
    /\ last'.op \in {"selectNode", "deselectNode"}

\* the hovered id stands for a node of the domain layer that has no subgroup
HoveredIsGroupParent ==
    \E i \in 1..Len(nodes) :
        /\ nodes[i].id = hoveredNode
        /\ \A j \in 1..(i - 1) : nodes[j].id # hoveredNode
        /\ nodes[i].layer = "domain"
        /\ nodes[i].subgroup \in {"", null}

\* the selection and the callback after a click
Delegated ==
    /\ selectedNodeId' = hoveredNode
    /\ Len(clicked') = 1
    /\ clicked'[1] = (IF hoveredNode = null THEN None ELSE getNodeById(hoveredNode))

\* C25 as stated: a click selects the hovered node or nothing, calls the click
\* callback once with the resolved node, and toggles group expansion only when
\* the hovered node is a group parent that is not expanded.
C25_TogglesUnexpandedOnly ==
    [][ClickStep =>
          /\ Delegated
          /\ expandedDomains' # expandedDomains =>
                HoveredIsGroupParent /\ hoveredNode \notin expandedDomains]_vars

\* C25, amended: a click selects the hovered node or nothing, calls the click
\* callback once with the resolved node, and toggles group expansion exactly
\* when the hovered node is a group parent, expanded or not.
C25_TogglesGroupParents ==
    [][ClickStep =>
          /\ Delegated
          /\ expandedDomains' # expandedDomains <=> HoveredIsGroupParent]_vars

\* a click on the expanded group parent has collapsed it
C25_Witness ==
    /\ Get(event, "name") = "click"
    /\ event.toggles = <<"domain-sound">>
    /\ hoveredNode = "domain-sound"
    /\ selectedNodeId = "domain-sound"
    /\ expandedDomains = {}
    /\ clicked = <<getNodeById("domain-sound")>>

\* C27: the store's set of expanded domains holds the ring's expanded domain
\* and nothing else, and is empty when the ring has none.
C27_RingAndStoreAgree ==
    expandedDomains = IF expandedDomain = null THEN {} ELSE {expandedDomain}

\* C26: deleteNode(id), of the Store and of the signals module alike, leaves
\* the mode, the filters, the expanded domains and the selected id as they
\* were; when id was the selected id it still is, and getNodeById(id) and
\* getSelectedNode() find no node.
C26_DeleteKeepsSelection ==
    [][/\ last'.op = "deleteNode" =>
            /\ mode' = mode /\ filters' = filters
            /\ expandedDomains' = expandedDomains
            /\ selectedNodeId' = selectedNodeId
            /\ \A i \in 1..Len(nodes') : nodes'[i].id # last'.args.id
            /\ selectedNodeId = last'.args.id => getSelectedNode' = NoNode
       /\ Get(event', "op") = "deleteNode" =>
            /\ sigMode' = sigMode
            /\ sigExpandedDomains' = sigExpandedDomains
            /\ sigSelectedNodeId' = sigSelectedNodeId
            /\ \A i \in 1..Len(sigNodes') : sigNodes'[i].id # event'.args.id]_vars

\* the selected node was deleted, in the Store and in the signals module
C26_Witness ==
    /\ last.op = "deleteNode" /\ last.args.id = "heros-journey"
    /\ selectedNodeId = "heros-journey"
    /\ getSelectedNode = NoNode
    /\ mode = "build" /\ expandedDomains = {"domain-sound"}
    /\ Len(nodes) = Len(getAllInitialNodes(SeedObjects)) - 1
    /\ Get(event, "op") = "deleteNode" /\ event.args.id = "heros-journey"
    /\ sigSelectedNodeId = "heros-journey"
    /\ Len(sigNodes) = Len(getAllInitialNodes(SeedObjects)) - 1

\* user, assistant, user, assistant, ...: every user message directly followed
\* by the assistant message of the same call
Paired(m) ==
    /\ Len(m) % 2 = 0
    /\ \A i \in 1..Len(m) :
         IF i % 2 = 1
         THEN m[i].role = "user" /\ m[i + 1].role = "assistant" /\ m[i + 1].obj = m[i].obj
         ELSE m[i].role = "assistant"

\* C28: at most one askTutor call is in its delay; a call made while aiStatus
\* is not 'ready' changes neither aiMessages nor aiStatus; whenever aiStatus
\* is 'ready' the messages are user/assistant pairs; and every accepted call
\* is followed by aiStatus 'ready'.
C28_OneRequestInFlight ==
    /\ [](Cardinality(thinking) <= 1)
    /\ [](aiStatus = "thinking" <=> thinking # {})
    /\ [](aiStatus = "ready" => Paired(aiMessages))
    /\ [][(Get(event', "name") = "askTutor" /\ aiStatus # "ready") =>
             /\ aiMessages' = aiMessages /\ aiStatus' = aiStatus
             /\ thinking' = thinking /\ ~event'.accepted]_vars
    /\ (aiStatus = "thinking") ~> (aiStatus = "ready")

\* a call was dropped while the call before it was in its delay
C28_Witness ==
    /\ Get(event, "name") = "askTutor" /\ ~event.accepted
    /\ aiStatus = "thinking"
    /\ Cardinality(thinking) = 1
    /\ Len(aiMessages) = 3
    /\ Paired(SubSeq(aiMessages, 1, 2))

\* C29: no message object clearChat removed is in aiMessages again.
C29_ClearedStaysCleared ==
    Range(aiMessages) \cap cleared = {}

\* C30: when no search is waiting, searchResults is what the search of
\* searchQuery returns, and is empty when searchQuery has fewer than 2
\* characters.
C30_ResultsFollowQuery ==
    searching = <<>> =>
        searchResults = IF TooShort(searchQuery) THEN <<>> ELSE oramaSearch(searchQuery)

====
